---- MODULE Spec2Model ----
(***************************************************************************)
(* FastEye / LogWise: the time-window filtering core of src/fasteye.py,    *)
(* src/logwise_v3.py (Streamlit front ends, duration mode) and             *)
(* src/logwise-time.py (command line, offset mode).                        *)
(*                                                                         *)
(* Text is modelled at character level: a string is a sequence of          *)
(* one-character strings, a file is such a sequence with "\n" between its  *)
(* lines, and the regular expressions of the source are matched character  *)
(* by character.  A datetime is the tuple <<year, month, day, hour,        *)
(* minute, second>> Python compares; None is the empty tuple.              *)
(***************************************************************************)
EXTENDS Integers, Sequences, FiniteSets, TLC

\* ------------------------------------------------------------------ bounds
\* Most lines in one uploaded / read file.
MaxLines == 2
\* Longest offset string enumerated for parse_offset.
MaxOffLen == 3

\* ------------------------------------------------------- characters, re
None == <<>>

Digits == <<"0", "1", "2", "3", "4", "5", "6", "7", "8", "9">>
UpperCase == <<"A", "B", "C", "D", "E", "F", "G", "H", "I", "J", "K", "L", "M",
               "N", "O", "P", "Q", "R", "S", "T", "U", "V", "W", "X", "Y", "Z">>
LowerCase == <<"a", "b", "c", "d", "e", "f", "g", "h", "i", "j", "k", "l", "m",
               "n", "o", "p", "q", "r", "s", "t", "u", "v", "w", "x", "y", "z">>

Range(f) == {f[i] : i \in DOMAIN f}

DigitSet == Range(Digits)
UpperSet == Range(UpperCase)
LowerSet == Range(LowerCase)
\* re: \d
IsDigit(c) == c \in DigitSet
\* re: [A-Z]
IsUpper(c) == c \in UpperSet
\* re: [a-z]
IsLower(c) == c \in LowerSet
\* re: [A-Za-z]
IsAlpha(c) == IsUpper(c) \/ IsLower(c)
\* re: \w
IsWord(c) == IsAlpha(c) \/ IsDigit(c) \/ c = "_"
\* re: \s, str.strip(), int()'s surrounding whitespace
IsSpace(c) == c \in {" ", "\t", "\n", "\r", "\f"}

DigitVal(c) == (CHOOSE i \in DOMAIN Digits : Digits[i] = c) - 1
\* str.lower() of one character (strptime matches %b with re.IGNORECASE)
LowerOf == [c \in UpperSet |-> LowerCase[CHOOSE i \in DOMAIN UpperCase : UpperCase[i] = c]]
Lower(c) == IF IsUpper(c) THEN LowerOf[c] ELSE c
LowerStr(s) == [i \in DOMAIN s |-> Lower(s[i])]

\* A match position is the index of the next unread character; 0 is "no match".
\* One literal character.
Lit(s, i, c) == IF i > 0 /\ i <= Len(s) /\ s[i] = c THEN i + 1 ELSE 0
\* \d{n}
DigitsN(s, i, n) ==
    IF i > 0 /\ i + n - 1 <= Len(s) /\ \A k \in i..(i + n - 1) : IsDigit(s[k])
    THEN i + n ELSE 0
\* \w{n}
WordN(s, i, n) ==
    IF i > 0 /\ i + n - 1 <= Len(s) /\ \A k \in i..(i + n - 1) : IsWord(s[k])
    THEN i + n ELSE 0
\* [A-Za-z]{n}
AlphaN(s, i, n) ==
    IF i > 0 /\ i + n - 1 <= Len(s) /\ \A k \in i..(i + n - 1) : IsAlpha(s[k])
    THEN i + n ELSE 0
\* [A-Z][a-z]{2}
CapWord3(s, i) ==
    IF i > 0 /\ i + 2 <= Len(s) /\ IsUpper(s[i]) /\ IsLower(s[i + 1]) /\ IsLower(s[i + 2])
    THEN i + 3 ELSE 0
\* \d{1,2}, greedy (what follows it in every pattern is never a digit)
Digits12(s, i) == IF DigitsN(s, i, 2) # 0 THEN i + 2 ELSE DigitsN(s, i, 1)
\* The first index >= i that holds no whitespace.
RECURSIVE SkipSpace(_, _)
SkipSpace(s, i) == IF i <= Len(s) /\ IsSpace(s[i]) THEN SkipSpace(s, i + 1) ELSE i
\* \s+
Spaces(s, i) == IF i > 0 /\ i <= Len(s) /\ IsSpace(s[i]) THEN SkipSpace(s, i) ELSE 0
\* The text matched between two positions (a group).
Group(s, i, j) == SubSeq(s, i, j - 1)

\* int() of a string of decimal digits
RECURSIVE DigitsToInt(_)
DigitsToInt(s) ==
    IF s = <<>> THEN 0
    ELSE 10 * DigitsToInt(SubSeq(s, 1, Len(s) - 1)) + DigitVal(s[Len(s)])

\* ------------------------------------------------------------- datetime
MonthAbbr == << <<"j", "a", "n">>, <<"f", "e", "b">>, <<"m", "a", "r">>,
                <<"a", "p", "r">>, <<"m", "a", "y">>, <<"j", "u", "n">>,
                <<"j", "u", "l">>, <<"a", "u", "g">>, <<"s", "e", "p">>,
                <<"o", "c", "t">>, <<"n", "o", "v">>, <<"d", "e", "c">> >>
\* datetime.strptime(month_str, '%b').month; 0 stands for its ValueError
MonthNumber == [name \in Range(MonthAbbr) |-> CHOOSE m \in DOMAIN MonthAbbr : MonthAbbr[m] = name]
MonthOf(month_str) ==
    LET name == LowerStr(month_str)
    IN  IF name \in DOMAIN MonthNumber THEN MonthNumber[name] ELSE 0

IsLeap(y) == y % 4 = 0 /\ (y % 100 # 0 \/ y % 400 = 0)
DaysInMonth(y, m) ==
    IF m = 2 THEN (IF IsLeap(y) THEN 29 ELSE 28)
    ELSE IF m \in {4, 6, 9, 11} THEN 30 ELSE 31
\* datetime(year, month, day, hour, minute, second); None stands for its ValueError
MakeDatetime(y, mo, d, h, mi, s) ==
    IF /\ 1 <= y /\ y <= 9999
       /\ 1 <= mo /\ mo <= 12
       /\ 1 <= d /\ d <= DaysInMonth(y, mo)
       /\ 0 <= h /\ h <= 23
       /\ 0 <= mi /\ mi <= 59
       /\ 0 <= s /\ s <= 59
    THEN <<y, mo, d, h, mi, s>>
    ELSE None

\* datetime.__lt__: the comparison of the six fields in order
RECURSIVE TupleLess(_, _, _)
TupleLess(a, b, i) ==
    IF i > Len(a) THEN FALSE
    ELSE IF a[i] # b[i] THEN a[i] < b[i]
    ELSE TupleLess(a, b, i + 1)
DtLess(a, b) == TupleLess(a, b, 1)
DtLeq(a, b) == a = b \/ DtLess(a, b)

DaysBeforeYear(y) == 365 * (y - 1) + ((y - 1) \div 4) - ((y - 1) \div 100) + ((y - 1) \div 400)
\* The days of a common year before each month.
DaysBefore == <<0, 31, 59, 90, 120, 151, 181, 212, 243, 273, 304, 334>>
DaysBeforeMonth(y, m) == DaysBefore[m] + (IF m > 2 /\ IsLeap(y) THEN 1 ELSE 0)
ToOrdinal(y, m, d) == DaysBeforeYear(y) + DaysBeforeMonth(y, m) + d
FromOrdinal(o) ==
    LET y == CHOOSE yy \in (o \div 366)..(o \div 365 + 1) :
                 DaysBeforeYear(yy) < o /\ o <= DaysBeforeYear(yy + 1)
        r == o - DaysBeforeYear(y)
        m == CHOOSE mm \in 1..12 :
                 DaysBeforeMonth(y, mm) < r /\ r <= DaysBeforeMonth(y, mm) + DaysInMonth(y, mm)
    IN  <<y, m, r - DaysBeforeMonth(y, m)>>
\* datetime + timedelta(seconds=secs); secs may be negative
DtAdd(dt, secs) ==
    LET total == dt[4] * 3600 + dt[5] * 60 + dt[6] + secs
        days  == total \div 86400
        rem   == total % 86400
        ymd   == FromOrdinal(ToOrdinal(dt[1], dt[2], dt[3]) + days)
    IN  <<ymd[1], ymd[2], ymd[3], rem \div 3600, (rem % 3600) \div 60, rem % 60>>


\* ------------------------------------------------------- TimestampParser
\* The match of HH:MM:SS written as three \d{2} groups or as one group.
Clock(s, i) == DigitsN(s, Lit(s, DigitsN(s, Lit(s, DigitsN(s, i, 2), ":"), 2), ":"), 2)
\* A parser that repairs an impossible day instead of failing: the day is cut to the
\* month's last.
FieldsToDatetimeClamped(month_str, day, hms, year) ==
    LET month == MonthOf(month_str)
        last == IF month \in 1..12 /\ year \in 1..9999 THEN DaysInMonth(year, month) ELSE 31
    IN  IF month = 0 THEN None
        ELSE MakeDatetime(year, month,
                          IF DigitsToInt(day) > last THEN last ELSE DigitsToInt(day),
                          DigitsToInt(SubSeq(hms, 1, 2)),
                          DigitsToInt(SubSeq(hms, 4, 5)),
                          DigitsToInt(SubSeq(hms, 7, 8)))
\* The datetime of a matched line: month_str, day, clock and year groups.
FieldsToDatetime(month_str, day, hms, year) ==
    LET month == MonthOf(month_str)
    IN  IF month = 0 THEN None
        ELSE MakeDatetime(year, month, DigitsToInt(day),
                          DigitsToInt(SubSeq(hms, 1, 2)),
                          DigitsToInt(SubSeq(hms, 4, 5)),
                          DigitsToInt(SubSeq(hms, 7, 8)))

\* fasteye.py: \[(\w{3})\s+(\w{3})\s+(\d{1,2})\s+(\d{2}):(\d{2}):(\d{2})\s+(\d{4})\]
\* The positions of the match: the starts and ends of the month, day, clock and year
\* groups, then the end of the match, 0 for no match.
BracketedMatch(line) ==
    LET p1 == Lit(line, 1, "[")
        p2 == WordN(line, p1, 3)
        p3 == Spaces(line, p2)
        p4 == WordN(line, p3, 3)
        p5 == Spaces(line, p4)
        p6 == Digits12(line, p5)
        p7 == Spaces(line, p6)
        p8 == Clock(line, p7)
        p9 == Spaces(line, p8)
        p10 == DigitsN(line, p9, 4)
    IN  <<p3, p4, p5, p6, p7, p8, p9, p10, Lit(line, p10, "]")>>
\* if not m: return None, else the datetime of the groups of the match m
MatchedDatetime(line, m) ==
    IF m[9] = 0 THEN None
    ELSE FieldsToDatetime(Group(line, m[1], m[2]), Group(line, m[3], m[4]),
                          Group(line, m[5], m[6]), DigitsToInt(Group(line, m[7], m[8])))
parse_bracketed_syslog_datetime(line) == MatchedDatetime(line, BracketedMatch(line))

\* fasteye.py, logwise_v3.py: ([A-Za-z]{3})\s+(\d{1,2})\s+(\d{2}):(\d{2}):(\d{2})
parse_traditional_syslog_datetime(line, year) ==
    LET p1 == AlphaN(line, 1, 3)
        p2 == Spaces(line, p1)
        p3 == Digits12(line, p2)
        p4 == Spaces(line, p3)
        p5 == Clock(line, p4)
    IN  IF p5 = 0 THEN None
        ELSE FieldsToDatetime(Group(line, 1, p1), Group(line, p2, p3),
                              Group(line, p4, p5), year)

\* logwise-time.py: ^\[(\w{3}) (\w{3})\s+(\d{1,2}) (\d{2}:\d{2}:\d{2}) (\d{4})\]
\* The positions of the dmesg match, as BracketedMatch gives them.
DmesgMatch(line) ==
    LET d1 == Lit(line, 1, "[")
        d2 == WordN(line, d1, 3)
        d3 == Lit(line, d2, " ")
        d4 == WordN(line, d3, 3)
        d5 == Spaces(line, d4)
        d6 == Digits12(line, d5)
        d7 == Lit(line, d6, " ")
        d8 == Clock(line, d7)
        d9 == Lit(line, d8, " ")
        d10 == DigitsN(line, d9, 4)
    IN  <<d3, d4, d5, d6, d7, d8, d9, d10, Lit(line, d10, "]")>>
\* logwise-time.py: ^([A-Z][a-z]{2})\s+(\d{1,2})\s+(\d{2}:\d{2}:\d{2})
SyslogMatch(line) ==
    LET s1 == CapWord3(line, 1)
        s2 == Spaces(line, s1)
        s3 == Digits12(line, s2)
        s4 == Spaces(line, s3)
    IN  <<s1, s2, s3, s4, Clock(line, s4)>>
\* Whether parse_log_time reads datetime.now() for this line: the syslog branch.
ReadsClock(line) == DmesgMatch(line)[9] = 0 /\ SyslogMatch(line)[5] # 0
\* now_year is the year the wall clock shows when the line is parsed.
\* The syslog branch on its match s: the groups with the wall clock's year.
SyslogDatetime(line, s, now_year) ==
    IF s[5] = 0 THEN None
    ELSE FieldsToDatetime(Group(line, 1, s[1]), Group(line, s[2], s[3]),
                          Group(line, s[4], s[5]), now_year)
\* The dmesg branch on its match d, else the syslog branch.
DmesgElseSyslog(line, d, now_year) ==
    IF d[9] # 0 THEN MatchedDatetime(line, d)
    ELSE SyslogDatetime(line, SyslogMatch(line), now_year)
parse_log_time(line, now_year) == DmesgElseSyslog(line, DmesgMatch(line), now_year)

\* ------------------------------------------------------------------ text
\* str.splitlines() with "\n" as the only line break of the modelled text.
RECURSIVE SplitFrom(_, _, _)
SplitFrom(s, i, cur) ==
    IF i > Len(s) THEN (IF cur = <<>> THEN <<>> ELSE <<cur>>)
    ELSE IF s[i] = "\n" THEN <<cur>> \o SplitFrom(s, i + 1, <<>>)
    ELSE SplitFrom(s, i + 1, Append(cur, s[i]))
splitlines(s) == SplitFrom(s, 1, <<>>)
\* file.readlines(): the lines with their line break kept
RECURSIVE ReadFrom(_, _, _)
ReadFrom(s, i, cur) ==
    IF i > Len(s) THEN (IF cur = <<>> THEN <<>> ELSE <<cur>>)
    ELSE IF s[i] = "\n" THEN <<Append(cur, "\n")>> \o ReadFrom(s, i + 1, <<>>)
    ELSE ReadFrom(s, i + 1, Append(cur, s[i]))
readlines(s) == ReadFrom(s, 1, <<>>)
\* '\n'.join(lines)
RECURSIVE join(_)
join(lines) ==
    IF lines = <<>> THEN <<>>
    ELSE IF Len(lines) = 1 THEN lines[1]
    ELSE lines[1] \o <<"\n">> \o join(Tail(lines))
\* not s.strip()
IsBlank(s) == \A i \in DOMAIN s : IsSpace(s[i])

\* re.search(r'(\d{4})[-/]', content): the year of the leftmost match, 0 for no match
RECURSIVE YearSearch(_, _)
YearSearch(s, i) ==
    IF i + 4 > Len(s) THEN 0
    ELSE IF s[i + 4] \in {"-", "/"} /\ DigitsN(s, i, 4) # 0
    THEN DigitsToInt(SubSeq(s, i, i + 3))
    ELSE YearSearch(s, i + 1)

\* strftime('%Y-%m-%d %H:%M:%S') of a datetime
RECURSIVE Pad(_, _)
Pad(n, width) ==
    IF width = 0 THEN <<>> ELSE Pad(n \div 10, width - 1) \o <<Digits[(n % 10) + 1]>>
strftime(dt) ==
    Pad(dt[1], 4) \o <<"-">> \o Pad(dt[2], 2) \o <<"-">> \o Pad(dt[3], 2) \o <<" ">>
    \o Pad(dt[4], 2) \o <<":">> \o Pad(dt[5], 2) \o <<":">> \o Pad(dt[6], 2)
\* datetime.strptime(s, '%Y-%m-%d %H:%M:%S') of a string strftime wrote
strptime(s) ==
    LET p1 == DigitsN(s, 1, 4)
        p2 == DigitsN(s, Lit(s, p1, "-"), 2)
        p3 == DigitsN(s, Lit(s, p2, "-"), 2)
        p4 == Clock(s, Lit(s, p3, " "))
    IN  IF p4 # Len(s) + 1 THEN None
        ELSE MakeDatetime(DigitsToInt(Group(s, 1, p1)), DigitsToInt(Group(s, p1 + 1, p2)),
                          DigitsToInt(Group(s, p2 + 1, p3)),
                          DigitsToInt(Group(s, p3 + 1, p3 + 3)),
                          DigitsToInt(Group(s, p3 + 4, p3 + 6)),
                          DigitsToInt(Group(s, p3 + 7, p3 + 9)))

\* ---------------------------------------------- FormatDetector, index
\* A detector that asks whether the line matches the grammar, not whether it parses.
RECURSIVE DetectByGrammar(_, _)
DetectByGrammar(lines, i) ==
    IF i > Len(lines) THEN "traditional"
    ELSE IF BracketedMatch(lines[i])[9] # 0 THEN "bracketed"
    ELSE DetectByGrammar(lines, i + 1)
\* for line in lines: if parse_bracketed_syslog_datetime(line): return "bracketed"
RECURSIVE DetectFrom(_, _)
DetectFrom(lines, i) ==
    IF i > Len(lines) THEN "traditional"
    ELSE IF parse_bracketed_syslog_datetime(lines[i]) # None THEN "bracketed"
    ELSE DetectFrom(lines, i + 1)
detect_timestamp_format(log_content) == DetectFrom(splitlines(log_content), 1)

\* TimestampParser under a format: the call each scan makes per line.
ParseLine(line, year, timestamp_format) ==
    IF timestamp_format = "bracketed" THEN parse_bracketed_syslog_datetime(line)
    ELSE parse_traditional_syslog_datetime(line, year)

\* The least datetime of a non-empty set.
MinDt(S) == CHOOSE a \in S : \A b \in S : DtLeq(a, b)
RECURSIVE SortedSeq(_)
SortedSeq(S) == IF S = {} THEN <<>> ELSE <<MinDt(S)>> \o SortedSeq(S \ {MinDt(S)})
\* times = [dt for dt in times if dt is not None]
NotNone(times) == SelectSeq(times, LAMBDA dt : dt # None)
\* sorted(times): the set() forgotten
RECURSIVE SortedWithDuplicates(_)
SortedWithDuplicates(times) ==
    IF times = <<>> THEN <<>>
    ELSE LET i == CHOOSE k \in DOMAIN times : times[k] = MinDt(Range(times))
         IN  <<times[i]>> \o SortedWithDuplicates(SubSeq(times, 1, i - 1)
                                                  \o SubSeq(times, i + 1, Len(times)))
\* sorted(set(times))
unique_times(times) == SortedSeq(Range(times))

\* year of the traditional branch: the YYYY[-/] token, else datetime.now().year
InferYear(log_content, now_year) ==
    IF YearSearch(log_content, 1) # 0 THEN YearSearch(log_content, 1) ELSE now_year
\* year = unique_times[0].year if unique_times else datetime.now().year
BracketedIndex(ut, now_year) == <<IF ut # <<>> THEN ut[1][1] ELSE now_year, ut>>
\* detect_year_and_times: <<year, unique_times>>
detect_year_and_times(log_content, timestamp_format, now_year) ==
    LET lines == splitlines(log_content)
    IN  IF timestamp_format = "bracketed"
        THEN LET times == [i \in DOMAIN lines |-> parse_bracketed_syslog_datetime(lines[i])]
             IN  BracketedIndex(unique_times(NotNone(times)), now_year)
        ELSE LET year == InferYear(log_content, now_year)
                 times == [i \in DOMAIN lines |->
                              parse_traditional_syslog_datetime(lines[i], year)]
             IN  <<year, unique_times(NotNone(times))>>

\* ------------------------------------------------ WindowFilter, duration
\* if dt and start <= dt <= end: the window's end taken in
InDurationWindowClosed(dt, start, end) == dt # None /\ DtLeq(start, dt) /\ DtLeq(dt, end)
\* if dt and start < dt < end: the anchor's own second left out
InDurationWindowOpenStart(dt, start, end) == dt # None /\ DtLess(start, dt) /\ DtLess(dt, end)
\* if dt and start <= dt < end
InDurationWindow(dt, start, end) == dt # None /\ DtLeq(start, dt) /\ DtLess(dt, end)
\* A scan that returns the kept lines ordered by timestamp.
RECURSIVE SortedByTime(_, _, _)
SortedByTime(kept, year, timestamp_format) ==
    IF kept = <<>> THEN <<>>
    ELSE LET least == MinDt({ParseLine(kept[k], year, timestamp_format) : k \in DOMAIN kept})
             i == CHOOSE k \in DOMAIN kept : ParseLine(kept[k], year, timestamp_format) = least
         IN  <<kept[i]>> \o SortedByTime(SubSeq(kept, 1, i - 1) \o SubSeq(kept, i + 1, Len(kept)),
                                         year, timestamp_format)
KeptLinesSorted(lines, start, end, year, timestamp_format) ==
    SortedByTime(SelectSeq(lines, LAMBDA line :
                     InDurationWindow(ParseLine(line, year, timestamp_format), start, end)),
                 year, timestamp_format)
\* A scan that takes the first line for a header: for line in lines[1:]
KeptLinesSkipFirst(lines, start, end, year, timestamp_format) ==
    SelectSeq(IF lines = <<>> THEN <<>> ELSE Tail(lines), LAMBDA line :
        InDurationWindow(ParseLine(line, year, timestamp_format), start, end))
\* the lines the scan appends to filtered, in scan order
KeptLines(lines, start, end, year, timestamp_format) ==
    SelectSeq(lines, LAMBDA line :
        InDurationWindow(ParseLine(line, year, timestamp_format), start, end))
filter_syslog_by_time(log_content, start, duration_minutes, year, timestamp_format) ==
    join(KeptLines(splitlines(log_content), start, DtAdd(start, duration_minutes * 60),
                   year, timestamp_format))

\* --------------------------------------------------- OffsetParser (CLI)
ValueError == [err |-> TRUE, secs |-> 0]
Timedelta(seconds) == [err |-> FALSE, secs |-> seconds]
\* s.strip() as int() applies it: the text without its outer whitespace
RECURSIVE RStrip(_)
RStrip(s) == IF s # <<>> /\ IsSpace(s[Len(s)]) THEN RStrip(SubSeq(s, 1, Len(s) - 1)) ELSE s
Strip(s) == LET r == RStrip(s) IN SubSeq(r, SkipSpace(r, 1), Len(r))
\* int(s): optional whitespace, an optional sign, one or more digits
IntOf(s) ==
    LET b == Strip(s)
        signed == b # <<>> /\ b[1] \in {"-", "+"}
        digits == IF signed THEN Tail(b) ELSE b
    IN  IF digits = <<>> \/ \E i \in DOMAIN digits : ~IsDigit(digits[i]) THEN ValueError
        ELSE Timedelta(IF signed /\ b[1] = "-" THEN 0 - DigitsToInt(digits)
                       ELSE DigitsToInt(digits))
\* s.endswith(c)
EndsWith(s, c) == s # <<>> /\ s[Len(s)] = c
\* s[:-1]
ButLast(s) == SubSeq(s, 1, Len(s) - 1)
\* timedelta(<unit>=int(text)): seconds per unit times the number, or int()'s ValueError
Scaled(text, unit_seconds) ==
    IF IntOf(text).err THEN ValueError ELSE Timedelta(unit_seconds * IntOf(text).secs)
\* A parser that takes the bare number for seconds.
parse_offset_bare_seconds(s) ==
    IF EndsWith(s, "m") THEN Scaled(ButLast(s), 60)
    ELSE IF EndsWith(s, "h") THEN Scaled(ButLast(s), 3600)
    ELSE IF EndsWith(s, "s") THEN Scaled(ButLast(s), 1)
    ELSE Scaled(s, 1)
parse_offset(s) ==
    IF EndsWith(s, "m") THEN Scaled(ButLast(s), 60)
    ELSE IF EndsWith(s, "h") THEN Scaled(ButLast(s), 3600)
    ELSE IF EndsWith(s, "s") THEN Scaled(ButLast(s), 1)
    ELSE Scaled(s, 60)

\* ---------------------------------------------- WindowFilter, offsets
\* datetime.strptime(target_time, "%b-%dT%H:%M").replace(year=now_year)
\* The positions of the %b-%dT%H:%M match: the ends of %b, "-", %d, "T", %H, ":", %M.
TargetMatch(target_time) ==
    LET p1 == AlphaN(target_time, 1, 3)
        p2 == Lit(target_time, p1, "-")
        p3 == Digits12(target_time, p2)
        p4 == Lit(target_time, p3, "T")
        p5 == Digits12(target_time, p4)
        p6 == Lit(target_time, p5, ":")
    IN  <<p1, p2, p3, p4, p5, p6, Digits12(target_time, p6)>>
\* dt.replace(year=now_year)
ReplaceYear(dt, now_year) ==
    IF dt = None THEN None ELSE <<now_year, dt[2], dt[3], dt[4], dt[5], dt[6]>>
\* strptime's datetime of the match p (year 1900, second 0), then the replace; None
\* when the text is not wholly matched, names no month or gives no datetime.
TargetDatetime(target_time, p, now_year) ==
    IF p[7] # Len(target_time) + 1 THEN None
    ELSE ReplaceYear(MakeDatetime(1900, MonthOf(Group(target_time, 1, p[1])),
                                  DigitsToInt(Group(target_time, p[2], p[3])),
                                  DigitsToInt(Group(target_time, p[4], p[5])),
                                  DigitsToInt(Group(target_time, p[6], p[7])), 0),
                     now_year)
parse_target_time(target_time, now_year) ==
    TargetDatetime(target_time, TargetMatch(target_time), now_year)
\* if ts and start_window <= ts < end_window: the window's end left out
InOffsetWindowHalfOpen(ts, start_window, end_window) ==
    ts # None /\ DtLeq(start_window, ts) /\ DtLess(ts, end_window)
\* if ts and start_window <= ts <= end_window
InOffsetWindow(ts, start_window, end_window) ==
    ts # None /\ DtLeq(start_window, ts) /\ DtLeq(ts, end_window)
\* The indices of the lines the scan appends; years[i] is the year the wall clock
\* shows while line i is parsed.
KeptIndices(lines, years, start_window, end_window) ==
    {i \in DOMAIN lines :
        InOffsetWindow(parse_log_time(lines[i], years[i]), start_window, end_window)}
\* for line in lines: ... filtered.append(line)
RECURSIVE AppendKept(_, _, _)
AppendKept(lines, kept, i) ==
    IF i > Len(lines) THEN <<>>
    ELSE (IF i \in kept THEN <<lines[i]>> ELSE <<>>) \o AppendKept(lines, kept, i + 1)
\* filter_logs_by_time: [status, target_dt, lines]; status is "bad_time" (the
\* function printed the --time error and returned []), "ValueError" (parse_offset
\* raised it and nothing caught it) or "ok".
ScanWindow(lines, years, target_dt, before_td, after_td) ==
    IF target_dt = None
    THEN [status |-> "bad_time", target_dt |-> None, lines |-> <<>>]
    ELSE IF before_td.err \/ after_td.err
    THEN [status |-> "ValueError", target_dt |-> target_dt, lines |-> <<>>]
    ELSE [status |-> "ok", target_dt |-> target_dt,
          lines |-> AppendKept(lines,
                        KeptIndices(lines, years, DtAdd(target_dt, 0 - before_td.secs),
                                    DtAdd(target_dt, after_td.secs)), 1)]
filter_logs_by_time(lines, target_time, before, after, anchor_year, years) ==
    ScanWindow(lines, years, parse_target_time(target_time, anchor_year),
               parse_offset(before), parse_offset(after))

\* ------------------------------------------------------------ the inputs
SP == <<" ">>
Tue == <<"T", "u", "e">>
Sep == <<"S", "e", "p">>
Feb == <<"F", "e", "b">>
Foo == <<"F", "o", "o">>
Y2025 == <<"2", "0", "2", "5">>
T131240 == <<"1", "3", ":", "1", "2", ":", "4", "0">>
T131242 == <<"1", "3", ":", "1", "2", ":", "4", "2">>
T131340 == <<"1", "3", ":", "1", "3", ":", "4", "0">>
T131342 == <<"1", "3", ":", "1", "3", ":", "4", "2">>
BracketedLine(mon, day, hms, msg) ==
    <<"[">> \o Tue \o SP \o mon \o SP \o day \o SP \o hms \o SP \o Y2025 \o <<"]", " ">> \o msg
TraditionalLine(mon, day, hms, msg) == mon \o <<" ", " ">> \o day \o SP \o hms \o SP \o msg
\* The lines a file is made of: bracketed lines and traditional lines one minute apart,
\* a bracketed line with an impossible date, a traditional line with no month,
\* a traditional line carrying a YYYY- token, and a line that is no log line.
LogLines ==
    { BracketedLine(Sep, <<"9">>, T131240, <<"a">>),
      BracketedLine(Sep, <<"9">>, T131340, <<"b">>),
      BracketedLine(Feb, <<"3", "1">>, T131240, <<"x">>),
      TraditionalLine(Sep, <<"9">>, T131242, <<"h">>),
      TraditionalLine(Sep, <<"9">>, T131342, <<"2", "0", "2", "4", "-">>),
      TraditionalLine(Foo, <<"9">>, T131240, <<"z">>),
      <<"n", "o", " ", "l", "o", "g">> }
RECURSIVE SeqsUpTo(_, _)
SeqsUpTo(S, n) ==
    IF n = 0 THEN {<<>>}
    ELSE SeqsUpTo(S, n - 1) \cup {Append(q, e) : q \in SeqsUpTo(S, n - 1), e \in S}
\* The file texts: lines joined by "\n", at most MaxLines of them when the last line
\* has no line break and one fewer when the text ends with "\n".
Contents ==
    {join(ls) : ls \in SeqsUpTo(LogLines, MaxLines)}
    \cup {join(ls) \o <<"\n">> : ls \in SeqsUpTo(LogLines, MaxLines - 1) \ {<<>>}}
\* st.number_input("Duration (minutes):", min_value=1, max_value=1440)
Durations == {1, 1440}
\* --time, --before, --after: 13:13 on Sep 9 with windows that end on a line's
\* second, malformed and negative offsets, and a --time of no 'Sep-09T13:10' shape
Sep09T1313 == Sep \o <<"-", "0", "9", "T", "1", "3", ":", "1", "3">>
CliArgs ==
    { <<Sep09T1313, <<"2", "0", "s">>, <<"4", "0", "s">> >>,
      <<Sep09T1313, <<"1", "m">>, <<"1">> >>,
      <<Sep09T1313, <<"-", "1", "m">>, <<"2", "m">> >>,
      <<Sep09T1313, <<"a", "b", "c">>, <<"5", "m">> >>,
      << <<"1", "3", ":", "1", "3">>, <<"1", "m">>, <<"1">> >> }
\* The characters of the offset strings parse_offset is enumerated over.
OffsetChars == {"0", "1", "3", "9", "-", "m", "h", "s", "a"}
OffsetStrings == SeqsUpTo(OffsetChars, MaxOffLen)
\* The wall clock's year when a run starts.
StartYears == {2025}

\* ---------------------------------------------------------------- state
VARIABLES
    app,               \* "fasteye" | "logwise_v3" | "logwise_time" | "offset"
    pc,                \* where main() stands
    raw_content,       \* the uploaded / read file's text
    clock_year,        \* the year datetime.now() shows
    new_year,          \* whether the clock has passed a New Year during the run
    timestamp_format,  \* fasteye: detect_timestamp_format's result
    detected_year,     \* detect_year_and_times's year (0: not yet)
    detected_times,    \* detect_year_and_times's unique_times
    selected_datetime, \* the anchor: the selectbox's choice / target_dt
    duration_minutes,
    filtered_logs,     \* filter_syslog_by_time's result (a text)
    again_logs,        \* filter_syslog_by_time applied to filtered_logs
    target_time, before, after,   \* the CLI's --time, --before, --after
    lines,             \* logwise-time.py main's lines
    status,            \* filter_logs_by_time's outcome
    scan_years,        \* the clock's year at each line of the CLI scan
    again,             \* filter_logs_by_time applied to its own result
    years_used,        \* every year a year-less line was parsed with, and the anchor's
    off_s, off_td      \* parse_offset's argument and result

vars == <<app, pc, raw_content, clock_year, new_year, timestamp_format, detected_year,
          detected_times, selected_datetime, duration_minutes, filtered_logs, again_logs,
          target_time, before, after, lines, status, scan_years, again, years_used,
          off_s, off_td>>
webVars == <<timestamp_format, detected_year, detected_times, duration_minutes,
             filtered_logs, again_logs>>
cliVars == <<target_time, before, after, lines, status, scan_years, again>>
offVars == <<off_s, off_td>>

NotRun == [status |-> "none", target_dt |-> None, lines |-> <<>>]

InitWeb ==
    /\ app \in {"fasteye", "logwise_v3"}
    /\ pc = IF app = "fasteye" THEN "detect" ELSE "index"
    /\ raw_content \in Contents
    /\ timestamp_format = "traditional"
    /\ target_time = <<>> /\ before = <<>> /\ after = <<>>
    /\ lines = <<>>
InitCli ==
    /\ app = "logwise_time"
    /\ pc = "cli_filter"
    /\ raw_content \in Contents
    /\ timestamp_format = "none"
    /\ \E args \in CliArgs :
          target_time = args[1] /\ before = args[2] /\ after = args[3]
    /\ lines = readlines(raw_content)
InitRest ==
    /\ clock_year \in StartYears
    /\ new_year = FALSE
    /\ detected_year = 0
    /\ detected_times = <<>>
    /\ selected_datetime = None
    /\ duration_minutes = 0
    /\ filtered_logs = <<>>
    /\ again_logs = <<>>
    /\ status = "none"
    /\ scan_years = <<>>
    /\ again = NotRun
    /\ years_used = {}
Init ==
    /\ InitWeb \/ InitCli
    /\ InitRest
    /\ off_s = <<>> /\ off_td = ValueError

\* ------------------------------------------------------ fasteye, logwise_v3
\* main: timestamp_format = detect_timestamp_format(raw_content)
DetectFormat ==
    /\ pc = "detect"
    /\ timestamp_format' = detect_timestamp_format(raw_content)
    /\ pc' = "index"
    /\ UNCHANGED <<app, raw_content, clock_year, new_year, detected_year, detected_times,
                   selected_datetime, duration_minutes, filtered_logs, again_logs,
                   years_used>>
    /\ UNCHANGED cliVars /\ UNCHANGED offVars

\* A main without the return on an empty index: it goes on to the selection.
IndexBuiltNoReturn(r) ==
    /\ detected_year' = r[1]
    /\ detected_times' = r[2]
    /\ pc' = "select"
    /\ years_used' = IF timestamp_format = "traditional"
                     THEN years_used \cup {r[1]} ELSE years_used
\* main: year, unique_times = r, then the return on an empty index
IndexBuilt(r) ==
    /\ detected_year' = r[1]
    /\ detected_times' = r[2]
    /\ pc' = IF r[2] = <<>> THEN "no_timestamps" ELSE "select"
    /\ years_used' = IF timestamp_format = "traditional"
                     THEN years_used \cup {r[1]} ELSE years_used
\* main: detect_year_and_times, then the return on an empty index
BuildIndex ==
    /\ pc = "index"
    /\ IndexBuilt(detect_year_and_times(raw_content, timestamp_format, clock_year))
    /\ UNCHANGED <<app, raw_content, clock_year, new_year, timestamp_format,
                   selected_datetime, duration_minutes, filtered_logs, again_logs>>
    /\ UNCHANGED cliVars /\ UNCHANGED offVars

\* main: the selectbox over strftime of each time, strptime of the choice, the duration
Select ==
    /\ pc = "select"
    /\ \E i \in DOMAIN detected_times, d \in Durations :
          /\ selected_datetime' = strptime(strftime(detected_times[i]))
          /\ duration_minutes' = d
          /\ years_used' = IF timestamp_format = "traditional"
                           THEN years_used \cup {strptime(strftime(detected_times[i]))[1]}
                           ELSE years_used
    /\ pc' = "ready"
    /\ UNCHANGED <<app, raw_content, clock_year, new_year, timestamp_format, detected_year,
                   detected_times, filtered_logs, again_logs>>
    /\ UNCHANGED cliVars /\ UNCHANGED offVars

\* main: the button: filter_syslog_by_time, then the empty-window warning or the analysis
RunFilter ==
    /\ pc = "ready"
    /\ filtered_logs' = filter_syslog_by_time(raw_content, selected_datetime, duration_minutes,
                                              detected_year, timestamp_format)
    /\ pc' = IF IsBlank(filtered_logs') THEN "empty_window" ELSE "analyze"
    /\ years_used' = IF timestamp_format = "traditional"
                     THEN years_used \cup {detected_year} ELSE years_used
    /\ UNCHANGED <<app, raw_content, clock_year, new_year, timestamp_format, detected_year,
                   detected_times, selected_datetime, duration_minutes, again_logs>>
    /\ UNCHANGED cliVars /\ UNCHANGED offVars

\* filter_syslog_by_time applied to its own result with the same window, format and year
Refilter ==
    /\ pc \in {"empty_window", "analyze"}
    /\ app \in {"fasteye", "logwise_v3"}
    /\ again_logs' = filter_syslog_by_time(filtered_logs, selected_datetime, duration_minutes,
                                           detected_year, timestamp_format)
    /\ pc' = "refiltered"
    /\ UNCHANGED <<app, raw_content, clock_year, new_year, timestamp_format, detected_year,
                   detected_times, selected_datetime, duration_minutes, filtered_logs,
                   years_used>>
    /\ UNCHANGED cliVars /\ UNCHANGED offVars

\* The wall clock passes a New Year before a step that reads it (elsewhere the
\* passing shows in no step); a run lasts less than a year.
Tick ==
    /\ \/ pc \in {"detect", "index", "cli_filter"}
       \/ pc = "analyze" /\ app = "logwise_time"
    /\ ~new_year
    /\ clock_year' = clock_year + 1
    /\ new_year' = TRUE
    /\ UNCHANGED <<app, pc, raw_content, selected_datetime, years_used>>
    /\ UNCHANGED webVars /\ UNCHANGED cliVars /\ UNCHANGED offVars

\* ------------------------------------------------------------ logwise-time
\* The years datetime.now() shows during one call: the anchor's, then one per line;
\* with roll, the New Year falls after the first k lines of the scan.
YearsRead(n, roll, k) == [i \in 1..n |-> IF roll /\ i > k THEN clock_year + 1 ELSE clock_year]
\* The years of the readings the call really makes: the anchor's and the syslog lines'.
YearsOf(ls, r, ys) ==
    IF r.status = "bad_time" THEN {}
    ELSE IF r.status = "ValueError" THEN {r.target_dt[1]}
    ELSE {r.target_dt[1]} \cup {ys[i] : i \in {j \in DOMAIN ls : ReadsClock(ls[j])}}

\* main: lines = r of a call whose clock readings were ys, then the exit on no lines
\* or the uncaught exception; roll tells that a New Year fell within the scan.
CallReturned(r, ys, roll) ==
    /\ status' = r.status
    /\ selected_datetime' = r.target_dt
    /\ lines' = r.lines
    /\ scan_years' = IF r.status = "ok" THEN ys ELSE <<>>
    /\ years_used' = years_used \cup YearsOf(lines, r, ys)
    /\ pc' = IF r.status = "ValueError" THEN "crashed"
             ELSE IF r.lines = <<>> THEN "no_content" ELSE "analyze"
    /\ clock_year' = IF roll /\ r.status = "ok" THEN clock_year + 1 ELSE clock_year
    /\ new_year' = (new_year \/ (roll /\ r.status = "ok"))
\* main: lines = filter_logs_by_time(lines, args.time, args.before, args.after), then
\* the exit on no lines; an exception of the call is caught nowhere.
CliFilter ==
    /\ pc = "cli_filter"
    /\ \E roll \in BOOLEAN, k \in 0..Len(lines) :
          /\ roll => (~new_year /\ k < Len(lines))
          /\ ~roll => k = 0
          /\ CallReturned(filter_logs_by_time(lines, target_time, before, after,
                                              clock_year, YearsRead(Len(lines), roll, k)),
                          YearsRead(Len(lines), roll, k), roll)
    /\ UNCHANGED <<app, raw_content, target_time, before, after, again>>
    /\ UNCHANGED webVars /\ UNCHANGED offVars

\* filter_logs_by_time applied to its own result with the same --time, --before, --after
CliRefilter ==
    /\ pc = "analyze"
    /\ app = "logwise_time"
    /\ \E roll \in BOOLEAN, k \in 0..Len(lines) :
          /\ roll => (~new_year /\ k < Len(lines))
          /\ ~roll => k = 0
          /\ LET ys == YearsRead(Len(lines), roll, k)
             IN  /\ again' = filter_logs_by_time(lines, target_time, before, after,
                                                 clock_year, ys)
                 /\ years_used' = years_used \cup YearsOf(lines, again', ys)
                 /\ clock_year' = IF roll THEN clock_year + 1 ELSE clock_year
                 /\ new_year' = (new_year \/ roll)
    /\ pc' = "refiltered"
    /\ UNCHANGED <<app, raw_content, selected_datetime, target_time, before, after, lines,
                   status, scan_years>>
    /\ UNCHANGED webVars /\ UNCHANGED offVars

Next == DetectFormat \/ BuildIndex \/ Select \/ RunFilter \/ Refilter \/ Tick
        \/ CliFilter \/ CliRefilter
Spec == Init /\ [][Next]_vars

\* ------------------------------------------------- parse_offset on its own
InitOffset ==
    /\ app = "offset"
    /\ pc = "parse_offset"
    /\ raw_content = <<>>
    /\ timestamp_format = "none"
    /\ target_time = <<>> /\ before = <<>> /\ after = <<>>
    /\ lines = <<>>
    /\ InitRest
    /\ off_s \in OffsetStrings
    /\ off_td = ValueError
\* before_td = parse_offset(before)
ParseOffset ==
    /\ pc = "parse_offset"
    /\ off_td' = parse_offset(off_s)
    /\ pc' = IF off_td'.err THEN "raised" ELSE "returned"
    /\ UNCHANGED <<app, raw_content, clock_year, new_year, selected_datetime, years_used,
                   off_s>>
    /\ UNCHANGED webVars /\ UNCHANGED cliVars
NextOffset == ParseOffset
SpecOffset == InitOffset /\ [][NextOffset]_vars

\* ================================================================ claims
IsWeb == app \in {"fasteye", "logwise_v3"}
IsCli == app = "logwise_time"
Indexed == IsWeb /\ pc \in {"no_timestamps", "select", "ready", "empty_window", "analyze",
                            "refiltered"}
Filtered == IsWeb /\ pc \in {"empty_window", "analyze", "refiltered"}
Scanned == IsCli /\ status = "ok"
InputLines == splitlines(raw_content)
FileLines == readlines(raw_content)
\* The timestamp the web scan gives a line, under the detected format and year.
TsOf(line) == ParseLine(line, detected_year, timestamp_format)
\* The timestamp the CLI scan gave line i of the file.
CliTsOf(i) == parse_log_time(FileLines[i], scan_years[i])
\* The seconds from datetime a to datetime b.
SecondsFrom(a, b) ==
    (ToOrdinal(b[1], b[2], b[3]) - ToOrdinal(a[1], a[2], a[3])) * 86400
    + (b[4] - a[4]) * 3600 + (b[5] - a[5]) * 60 + (b[6] - a[6])
Count(s, e) == Cardinality({i \in DOMAIN s : s[i] = e})
RECURSIVE IsSubseq(_, _)
IsSubseq(s, of) ==
    IF s = <<>> THEN TRUE
    ELSE IF of = <<>> THEN FALSE
    ELSE IF Head(s) = Head(of) THEN IsSubseq(Tail(s), Tail(of))
    ELSE IsSubseq(s, Tail(of))

\* C1: the index detect_year_and_times returns is strictly increasing (so it holds no
\* value twice), and each of its elements is the parsed timestamp of an input line.
C1_IndexStrictlyIncreasing ==
    Indexed =>
        LET ts == [j \in DOMAIN InputLines |-> TsOf(InputLines[j])]
        IN  /\ \A i \in 1..(Len(detected_times) - 1) :
                  SecondsFrom(detected_times[i], detected_times[i + 1]) > 0
            /\ \A i \in DOMAIN detected_times : detected_times[i] \in Range(ts)
\* Two lines of the file carry the same timestamp and the index holds it once.
C1_Witness ==
    /\ Indexed
    /\ Len(InputLines) = 2
    /\ TsOf(InputLines[1]) # None
    /\ TsOf(InputLines[1]) = TsOf(InputLines[2])
    /\ Len(detected_times) = 1

\* The lines duration mode is to keep: a timestamp ts with A <= ts < A + D minutes.
InDuration(line) ==
    /\ TsOf(line) # None
    /\ SecondsFrom(selected_datetime, TsOf(line)) >= 0
    /\ SecondsFrom(selected_datetime, TsOf(line)) < 60 * duration_minutes
\* C2: duration mode keeps a line iff it has a timestamp ts with A <= ts < A + D: the
\* line at A is kept, the line at A + D and the line before A are dropped.
C2_DurationWindowHalfOpen ==
    Filtered => filtered_logs = join(SelectSeq(InputLines, InDuration))
\* The file holds a line at A, which is kept, and a line at A + D, which is dropped.
C2_Witness ==
    /\ Filtered
    /\ \E i, j \in DOMAIN InputLines :
          /\ TsOf(InputLines[i]) = selected_datetime
          /\ TsOf(InputLines[j]) # None
          /\ SecondsFrom(selected_datetime, TsOf(InputLines[j])) = 60 * duration_minutes
          /\ filtered_logs = InputLines[i]

\* The indices offset mode is to keep: a timestamp ts with A - B <= ts <= A + F.
InOffsets(i) ==
    /\ CliTsOf(i) # None
    /\ SecondsFrom(selected_datetime, CliTsOf(i)) >= 0 - parse_offset(before).secs
    /\ SecondsFrom(selected_datetime, CliTsOf(i)) <= parse_offset(after).secs
\* C3: offset mode keeps a line iff it has a timestamp ts with A - B <= ts <= A + F,
\* both ends included.
C3_OffsetWindowClosed ==
    Scanned => lines = AppendKept(FileLines, {i \in DOMAIN FileLines : InOffsets(i)}, 1)
\* The file holds a line at A - B and a line at A + F, and both are kept.
C3_Witness ==
    /\ Scanned
    /\ Len(FileLines) = 2
    /\ CliTsOf(1) # None /\ CliTsOf(2) # None
    /\ SecondsFrom(selected_datetime, CliTsOf(1)) = 0 - parse_offset(before).secs
    /\ SecondsFrom(selected_datetime, CliTsOf(2)) = parse_offset(after).secs
    /\ parse_offset(before).secs > 0
    /\ lines = FileLines

\* C4: in both modes the result is a subsequence of the input lines, in input order and
\* unmodified, and holds a line once for each of its occurrences in the window.
C4_ResultIsSubsequence ==
    /\ Filtered =>
          LET input == InputLines
              result == splitlines(filtered_logs)
          IN  /\ IsSubseq(result, input)
              /\ \A l \in Range(input) :
                    Count(result, l) = IF InDuration(l) THEN Count(input, l) ELSE 0
    /\ Scanned =>
          LET input == FileLines
              kept == {i \in DOMAIN input : InOffsets(i)}
          IN  /\ IsSubseq(lines, input)
              /\ \A l \in Range(input) :
                    Count(lines, l) = Cardinality({i \in kept : input[i] = l})
\* The later line of the file comes first in it, and both lines are kept in file order.
C4_Witness ==
    /\ Filtered
    /\ Len(InputLines) = 2
    /\ TsOf(InputLines[1]) # None /\ TsOf(InputLines[2]) # None
    /\ SecondsFrom(TsOf(InputLines[1]), TsOf(InputLines[2])) < 0
    /\ splitlines(filtered_logs) = InputLines

\* The lines of the model's files that have no timestamp: by their text (an impossible
\* date, no month name, no log line) or by the other format's notation.
Feb31Line == BracketedLine(Feb, <<"3", "1">>, T131240, <<"x">>)
FooLine == TraditionalLine(Foo, <<"9">>, T131240, <<"z">>)
NoLogLine == <<"n", "o", " ", "l", "o", "g">>
Chomp(line) == IF EndsWith(line, "\n") THEN ButLast(line) ELSE line
NoMatch(line) ==
    \/ Chomp(line) \in {Feb31Line, FooLine, NoLogLine}
    \/ timestamp_format = "bracketed" /\ line[1] # "["
    \/ timestamp_format = "traditional" /\ line[1] = "["
\* C5: a line with no timestamp gives the index no value and is kept by no window, and
\* the scan goes on past it: the lines with a timestamp are all indexed.
C5_NoMatchLinesExcluded ==
    /\ Indexed =>
          LET input == InputLines
              ts == [j \in DOMAIN input |-> TsOf(input[j])]
          IN  /\ \A i \in DOMAIN detected_times :
                    \E j \in DOMAIN input : ~NoMatch(input[j]) /\ ts[j] = detected_times[i]
              /\ \A j \in DOMAIN input :
                    IF NoMatch(input[j]) THEN ts[j] = None
                    ELSE ts[j] \in Range(detected_times)
    /\ Filtered => \A l \in Range(splitlines(filtered_logs)) : ~NoMatch(l)
    /\ Scanned => \A l \in Range(lines) : ~NoMatch(l)
\* A line with an impossible date comes first, a line with a timestamp follows it and
\* is indexed and kept.
C5_Witness ==
    /\ Filtered
    /\ Len(InputLines) = 2
    /\ InputLines[1] = Feb31Line
    /\ filtered_logs = InputLines[2]

\* C6: the filter is idempotent: applied to its own result with the same anchor, the same
\* duration or offsets, the same format and the same year, it returns that result.
C6_FilterIdempotent ==
    pc = "refiltered" =>
        /\ IsWeb => again_logs = filtered_logs
        /\ (IsCli /\ Cardinality(years_used) <= 1) =>
              again.status = "ok" /\ again.lines = lines
\* The first pass dropped a line and kept one, and the second pass kept it again.
C6_Witness ==
    /\ pc = "refiltered"
    /\ IsWeb
    /\ Len(InputLines) = 2
    /\ Len(splitlines(filtered_logs)) = 1
    /\ again_logs = filtered_logs

\* An offset string of the shape the contract admits: digits, then at most one of s, m, h.
WellFormedOffset(s) ==
    LET digits == IF s # <<>> /\ s[Len(s)] \in {"s", "m", "h"} THEN ButLast(s) ELSE s
    IN  digits # <<>> /\ \A i \in DOMAIN digits : IsDigit(digits[i])
\* C7: an offset string of any other shape makes parse_offset fail, and
\* filter_logs_by_time hands that failure to its caller before it scans a line, the
\* process going on.
C7_MalformedOffsetReturned ==
    (IsCli /\ status \in {"ok", "ValueError"}
        /\ (~WellFormedOffset(before) \/ ~WellFormedOffset(after)))
    => (status = "ValueError" /\ pc # "crashed")

\* The number a string of digits writes.
NatOf(digits) == DigitsToInt(digits)
UnitSeconds(s) ==
    IF s[Len(s)] = "s" THEN 1 ELSE IF s[Len(s)] = "h" THEN 3600 ELSE 60
\* C8: "<n>s" is n seconds, "<n>m" 60 n, "<n>h" 3600 n and the bare "<n>" 60 n seconds;
\* "10m" is 600 s, "1h" 3600 s, "30s" 30 s, "90" 5400 s; no result is negative.
C8_OffsetUnits ==
    (app = "offset" /\ pc # "parse_offset" /\ WellFormedOffset(off_s)) =>
        /\ ~off_td.err
        /\ off_td.secs >= 0
        /\ off_td.secs = UnitSeconds(off_s) *
               NatOf(IF IsDigit(off_s[Len(off_s)]) THEN off_s ELSE ButLast(off_s))
        /\ off_s = <<"1", "0", "m">> => off_td.secs = 600
        /\ off_s = <<"1", "h">> => off_td.secs = 3600
        /\ off_s = <<"3", "0", "s">> => off_td.secs = 30
        /\ off_s = <<"9", "0">> => off_td.secs = 5400
\* "90", with no unit letter, has been parsed as 90 minutes.
C8_Witness ==
    /\ app = "offset"
    /\ pc = "returned"
    /\ off_s = <<"9", "0">>
    /\ off_td.secs = 5400

\* C9: within one run on year-less lines every line is parsed with one year, which is
\* the anchor's year too, whatever the clock does meanwhile.
C9_OneYearPerRun == Cardinality(years_used) <= 1

\* A line that matches the bracketed grammar, whatever its date.
MatchesBracketed(line) == BracketedMatch(line)[9] # 0
FormatDetected == app = "fasteye" /\ pc # "detect"
\* C10 as written: the format is bracketed iff a line matches the bracketed grammar.
C10_BracketedIffGrammarMatch ==
    FormatDetected =>
        LET input == InputLines
        IN  timestamp_format = "bracketed"
                <=> \E i \in DOMAIN input : MatchesBracketed(input[i])
\* C10, amended: the format is bracketed iff a line parses as a bracketed timestamp (it
\* matches the grammar and its month, date and time exist), traditional otherwise; the
\* first such line decides, the lines after it change nothing.
C10_BracketedIffLineParses ==
    FormatDetected =>
        LET input == InputLines
            deciding == {i \in DOMAIN input :
                            MatchesBracketed(input[i]) /\ input[i] # Feb31Line}
        IN  /\ timestamp_format \in {"bracketed", "traditional"}
            /\ timestamp_format = "bracketed" <=> deciding # {}
            /\ \A i \in deciding :
                  detect_timestamp_format(join(SubSeq(input, 1, i))) = "bracketed"
\* The first line matches the grammar with an impossible date, the second line parses,
\* and the format is bracketed.
C10_Witness ==
    /\ FormatDetected
    /\ Len(InputLines) = 2
    /\ InputLines[1] = Feb31Line
    /\ timestamp_format = "bracketed"

\* C11: once the index is built and empty, main has reported "no timestamps" and
\* returned: no anchor and no duration are chosen, filter_syslog_by_time has produced
\* nothing and no analysis is submitted, and no step of the run follows that state.
C11_EmptyIndexStops ==
    /\ [](IsWeb /\ pc \notin {"detect", "index"} /\ detected_times = <<>> =>
            /\ pc = "no_timestamps"
            /\ selected_datetime = None
            /\ duration_minutes = 0
            /\ filtered_logs = <<>>
            /\ again_logs = <<>>)
    /\ [][~(IsWeb /\ pc = "no_timestamps")]_vars
\* A file that has lines, none of which parses, has been indexed and main has returned.
C11_Witness ==
    /\ IsWeb
    /\ pc = "no_timestamps"
    /\ detected_times = <<>>
    /\ Len(InputLines) = 2

\* C12: after a selection from the index, the duration-mode filter returns a non-blank
\* result that holds every line whose timestamp is the anchor, as often as the file
\* holds it; the "no logs in the selected window" outcome is never reached.
C12_AnchorLinesKept ==
    Filtered =>
        LET result == splitlines(filtered_logs)
        IN  /\ pc # "empty_window"
            /\ ~IsBlank(filtered_logs)
            /\ selected_datetime \in Range(detected_times)
            /\ \E l \in Range(InputLines) : TsOf(l) = selected_datetime
            /\ \A l \in Range(InputLines) :
                  TsOf(l) = selected_datetime => Count(result, l) = Count(InputLines, l)
\* The anchor is the later of two timestamps of the file, and the filter with the
\* shortest duration keeps the anchor's line alone.
C12_Witness ==
    /\ Filtered
    /\ Len(detected_times) = 2
    /\ selected_datetime = detected_times[2]
    /\ duration_minutes = 1
    /\ Len(InputLines) = 2
    /\ \E i \in DOMAIN InputLines :
          TsOf(InputLines[i]) = selected_datetime /\ filtered_logs = InputLines[i]
====
